---------------------------- MODULE Spec2Model ----------------------------
(***************************************************************************)
(* Model of the ACI 318-19 part of structuralcodes:                        *)
(*   - the formula primitives Ec, fyd, fud                                 *)
(*     (codes/aci318_19/_concrete_material_properties.py,                   *)
(*      codes/aci318_19/_reinforcement_material_properties.py),             *)
(*   - the one-way shear engine calc_shear_strength                        *)
(*     (codes/aci318_19/shear.py),                                          *)
(*   - the lazily cached, overridable properties Ec, fct, eps_cu of        *)
(*     ConcreteACI318_19 (materials/concrete/_concreteACI318_19.py).        *)
(*                                                                         *)
(* Numbers.  The Python code works on floats.  Here a number is the exact  *)
(* real (n/d)*sqrt(r), kept in normal form: d > 0, gcd(n,d) = 1, r a       *)
(* squarefree positive integer, and r = 1 when n = 0.  Square roots are    *)
(* taken exactly (sqrt(4000) = 20*sqrt(10)); the cube root is taken of     *)
(* rationals whose numerator and denominator are perfect cubes, which is   *)
(* how the inputs of the shear engine are enumerated.                      *)
(***************************************************************************)
EXTENDS Integers, Sequences, FiniteSets, TLC

(***************************************************************************)
(* Exact arithmetic on numbers (n/d)*sqrt(r)                               *)
(***************************************************************************)
IAbs(x) == IF x < 0 THEN -x ELSE x

RECURSIVE GCD(_, _)
GCD(a, b) == IF b = 0 THEN a ELSE GCD(b, a % b)

\* The number (n/d)*sqrt(r) in normal form; d # 0 and r squarefree.
Num(n, d, r) ==
    IF n = 0 THEN [n |-> 0, d |-> 1, r |-> 1]
    ELSE LET s == IF d < 0 THEN -1 ELSE 1
             g == GCD(IAbs(n), IAbs(d))
         IN  [n |-> (s * n) \div g, d |-> (s * d) \div g, r |-> r]

Rat(n, d) == Num(n, d, 1)
I(n) == Num(n, 1, 1)
Zero == I(0)
One == I(1)

IsZero(a) == a.n = 0
IsNeg(a) == a.n < 0

\* Python's bool(x) for a number.
Truthy(a) == a.n # 0

Neg(a) == [a EXCEPT !.n = -a.n]

\* abs(x)
Abs(a) == [a EXCEPT !.n = IAbs(a.n)]

\* r1 and r2 are squarefree, so r1*r2 = g^2 * (r1/g)*(r2/g) with g their gcd.
Mul(a, b) ==
    LET g == GCD(a.r, b.r)
    IN  Num(a.n * b.n * g, a.d * b.d, (a.r \div g) * (b.r \div g))

\* 1/a for a # 0:  d/(n*sqrt(r)) = d*sqrt(r)/(n*r)
Inv(a) == Num(a.d, a.n * a.r, a.r)

Div(a, b) == Mul(a, Inv(b))

\* a + b; a sum of two different irrationals is outside the number format and
\* stops the evaluation (the inputs are enumerated so that none arises).
Add(a, b) ==
    IF IsZero(a) THEN b
    ELSE IF IsZero(b) THEN a
    ELSE IF a.r = b.r THEN Num(a.n * b.d + b.n * a.d, a.d * b.d, a.r)
    ELSE CHOOSE x \in {} : TRUE

\* a < b.  Equal radicands compare by cross-multiplication, different ones by
\* sign and then by the squares.
Lt(a, b) ==
    IF a.r = b.r THEN a.n * b.d < b.n * a.d
    ELSE IF a.n <= 0 /\ b.n > 0 THEN TRUE
    ELSE IF a.n >= 0 /\ b.n <= 0 THEN FALSE
    ELSE LET sa == a.n * a.n * a.r * b.d * b.d
             sb == b.n * b.n * b.r * a.d * a.d
         IN  IF a.n > 0 THEN sa < sb ELSE sb < sa

Le(a, b) == ~Lt(b, a)

\* Python's min(a, b) and max(a, b): the first argument unless the second is
\* strictly smaller (larger).
Min(a, b) == IF Lt(b, a) THEN b ELSE a
Max(a, b) == IF Lt(a, b) THEN b ELSE a

\* <<k, m>> with n = k*k*m and m squarefree, for n > 0.
RECURSIVE SquarePart(_, _, _)
SquarePart(n, k, acc) ==
    IF k * k > n THEN <<acc, n>>
    ELSE IF n % (k * k) = 0 THEN SquarePart(n \div (k * k), k, acc * k)
    ELSE SquarePart(n, k + 1, acc)

\* math.sqrt(a) for a rational a >= 0:  sqrt(n/d) = sqrt(n*d)/d.
Sqrt(a) ==
    IF IsZero(a) THEN Zero
    ELSE LET sp == SquarePart(a.n * a.d, 2, 1)
         IN  Num(sp[1], a.d, sp[2])

\* The integer k with k^3 = n, for a perfect cube n >= 0.
RECURSIVE CubeRoot(_, _)
CubeRoot(n, k) ==
    IF k * k * k = n THEN k
    ELSE IF k * k * k > n THEN CHOOSE x \in {} : TRUE
    ELSE CubeRoot(n, k + 1)

\* a ** (1/3) for a rational a >= 0 with perfect-cube numerator and denominator.
Cbrt(a) == Rat(CubeRoot(a.n, 0), CubeRoot(a.d, 0))

\* a ** 1.5 for an integer-valued a >= 0:  a*sqrt(a).
Pow15(a) == Mul(a, Sqrt(a))

(***************************************************************************)
(* Optional arguments (Python None)                                        *)
(***************************************************************************)
None == [some |-> FALSE, v |-> Zero]
Some(a) == [some |-> TRUE, v |-> a]

(***************************************************************************)
(* Results of a call: a value or the exception it raises                   *)
(***************************************************************************)
Ok(a) == [kind |-> "ok", v |-> a]
Raise(e) == [kind |-> e, v |-> Zero]

\* What math.sqrt raises on a negative argument.
MathDomain == "ValueError: math domain error"

(***************************************************************************)
(* codes/aci318_19/_concrete_material_properties.py                        *)
(***************************************************************************)
EcDefaultWc == 145
EcWcLow == 90
EcWcHigh == 160
EcLightFactor == 33
EcNormalFactor == 57000

\* Mutant of InWeightRange: the bounds taken as exclusive.
InWeightRangeStrict(w_c) == EcWcLow < w_c /\ w_c < EcWcHigh

\* 90 <= w_c <= 160
InWeightRange(w_c) == EcWcLow <= w_c /\ w_c <= EcWcHigh

\* Ec(f_c, w_c); math.sqrt raises ValueError on a negative argument.
Ec(f_c, w_c) ==
    IF InWeightRange(w_c)
    THEN IF f_c < 0 THEN Raise(MathDomain)
         ELSE Ok(Mul(Mul(I(EcLightFactor), Pow15(I(w_c))), Sqrt(I(f_c))))
    ELSE IF f_c < 0 THEN Raise(MathDomain)
         ELSE Ok(Mul(I(EcNormalFactor), Sqrt(I(f_c))))

(***************************************************************************)
(* codes/aci318_19/_reinforcement_material_properties.py                   *)
(***************************************************************************)
\* Mutant of GammaInvalid: gamma_s = 1 rejected as well.
GammaInvalidIncl(gamma_s) == Le(gamma_s, One)

\* gamma_s < 1
GammaInvalid(gamma_s) == Lt(gamma_s, One)

\* fyd(fy, gamma_s)
fyd(fy, gamma_s) ==
    IF Le(fy, Zero) THEN Raise("ValueError")
    ELSE IF GammaInvalid(gamma_s) THEN Raise("ValueError")
    ELSE Ok(Div(fy, gamma_s))

\* fud(fu, gamma_s)
fud(fu, gamma_s) ==
    IF Le(fu, Zero) THEN Raise("ValueError")
    ELSE IF GammaInvalid(gamma_s) THEN Raise("ValueError")
    ELSE Ok(Div(fu, gamma_s))

(***************************************************************************)
(* codes/aci318_19/shear.py                                                *)
(***************************************************************************)
ShearOk(Vc, Vn, phi, lambda_s) ==
    [kind |-> "ok", Vc |-> Vc, Vn |-> Vn, phi |-> phi, lambda_s |-> lambda_s]

\* raise ValueError('Ag must be provided if Nu is not zero.')
AgRequired == "ValueError: Ag must be provided if Nu is not zero."

ShearRaise(e) ==
    [kind |-> e, Vc |-> Zero, Vn |-> Zero, phi |-> Zero, lambda_s |-> Zero]

\* Mutant of MissingAg: only a compressive (positive) axial load is checked.
MissingAgPositiveOnly(Nu, Ag) == Lt(Zero, Nu) /\ ~Ag.some

\* Nu != 0 and Ag is None
MissingAg(Nu, Ag) == ~IsZero(Nu) /\ ~Ag.some

\* 1 + d / 10
SizeDenominator(d) == Add(One, Div(d, I(10)))

\* lambda_s = min(math.sqrt(2 / (1 + d / 10)), 1.0); the division raises
\* ZeroDivisionError at d = -10 and math.sqrt raises ValueError below it.
LambdaS(d) ==
    IF IsZero(SizeDenominator(d)) THEN Raise("ZeroDivisionError")
    ELSE IF IsNeg(SizeDenominator(d)) THEN Raise(MathDomain)
    ELSE Ok(Min(Sqrt(Div(I(2), SizeDenominator(d))), One))

\* Av_min is not None and Av_min >= 0
HasMinReinf(Av_min) == Av_min.some /\ Le(Zero, Av_min.v)

\* Vc_a = 2 * lambda_concrete * math.sqrt(f_c) * bw * d
VcA(f_c, bw, d, lambda_concrete) ==
    Mul(Mul(Mul(Mul(I(2), lambda_concrete), Sqrt(f_c)), bw), d)

\* Vc_b = 8 * lambda_concrete * (Av_min / (bw * d)) ** (1 / 3)
\*        * math.sqrt(f_c) * bw * d
VcB(f_c, bw, d, Av_min, lambda_concrete) ==
    Mul(Mul(Mul(Mul(Mul(I(8), lambda_concrete), Cbrt(Div(Av_min, Mul(bw, d)))),
                Sqrt(f_c)), bw), d)

\* Mutant of SelectVc: the smaller of the two candidates.
SelectVcMin(Vc_a, Vc_b) == Min(Vc_a, Vc_b)

\* Vc = max(Vc_a, Vc_b)
SelectVc(Vc_a, Vc_b) == Max(Vc_a, Vc_b)

\* Lines 45-50: the branch for sections with minimum shear reinforcement.
\* A negative base of ** (1 / 3) gives a complex number, on which max raises
\* TypeError.
VcMinReinf(f_c, bw, d, Av_min, lambda_concrete) ==
    IF IsNeg(f_c) THEN Raise(MathDomain)
    ELSE IF IsZero(Mul(bw, d)) THEN Raise("ZeroDivisionError")
    ELSE IF IsNeg(Div(Av_min, Mul(bw, d))) THEN Raise("TypeError")
    ELSE Ok(SelectVc(VcA(f_c, bw, d, lambda_concrete),
                     VcB(f_c, bw, d, Av_min, lambda_concrete)))

\* Mutant of RhoWDefault: a ratio of 1 when Av_min is omitted.
RhoWDefaultOne == One

\* rho_w = ... if Av_min else 0
RhoWDefault == Zero

\* Lines 51-54: the branch for sections without minimum shear reinforcement.
\* Here Av_min is None or negative.  The complex value of a negative
\* rho_w ** (1 / 3) reaches min(Vc, Vc_max) of line 62, which raises TypeError.
VcNoMinReinf(f_c, bw, d, Av_min, lambda_concrete, lambda_s) ==
    IF Av_min.some /\ Truthy(Av_min.v) /\ IsZero(Mul(bw, d))
    THEN Raise("ZeroDivisionError")
    ELSE LET rho_w == IF Av_min.some /\ Truthy(Av_min.v)
                      THEN Div(Av_min.v, Mul(bw, d))
                      ELSE RhoWDefault
         IN  IF IsNeg(f_c) THEN Raise(MathDomain)
             ELSE IF IsNeg(rho_w) THEN Raise("TypeError")
             ELSE Ok(Mul(Mul(Mul(Mul(Mul(Mul(I(8), lambda_s), lambda_concrete),
                                     Cbrt(rho_w)), Sqrt(f_c)), bw), d))

\* Nu_term = min(Nu / (6 * Ag), 0.05 * f_c) if Nu and Ag else 0
NuTerm(Nu, Ag, f_c) ==
    IF Truthy(Nu) /\ Ag.some /\ Truthy(Ag.v)
    THEN Min(Div(Nu, Mul(I(6), Ag.v)), Mul(Rat(5, 100), f_c))
    ELSE Zero

\* Vc_max = 5 * lambda_concrete * math.sqrt(f_c) * bw * d
VcMax(f_c, bw, d, lambda_concrete) ==
    Mul(Mul(Mul(Mul(I(5), lambda_concrete), Sqrt(f_c)), bw), d)

\* Mutant of ClampVc: the upper bound is not applied.
ClampVcOff(Vc, Vc_max) == Vc

\* Vc = min(Vc, Vc_max)
ClampVc(Vc, Vc_max) == Min(Vc, Vc_max)

\* phi = 0.75 when phi is None
DefaultPhi == Rat(75, 100)

\* calc_shear_strength(f_c, bw, d, Nu, Ag, Av_min, lambda_concrete, phi)
calc_shear_strength(a) ==
    IF MissingAg(a.Nu, a.Ag) THEN ShearRaise(AgRequired)
    ELSE IF LambdaS(a.d).kind # "ok" THEN ShearRaise(LambdaS(a.d).kind)
    ELSE
      LET lambda_s == LambdaS(a.d).v
          base == IF HasMinReinf(a.Av_min)
                  THEN VcMinReinf(a.f_c, a.bw, a.d, a.Av_min.v,
                                  a.lambda_concrete)
                  ELSE VcNoMinReinf(a.f_c, a.bw, a.d, a.Av_min,
                                    a.lambda_concrete, lambda_s)
      IN  IF base.kind # "ok" THEN ShearRaise(base.kind)
          ELSE
            LET Vc0 == Add(base.v, Mul(Mul(NuTerm(a.Nu, a.Ag, a.f_c), a.bw), a.d))
                Vc == ClampVc(Vc0, VcMax(a.f_c, a.bw, a.d, a.lambda_concrete))
                phi == IF a.phi.some THEN a.phi.v ELSE DefaultPhi
            IN  ShearOk(Vc, Mul(phi, Vc), phi, lambda_s)

(***************************************************************************)
(* codes/aci318_19/__init__.py: the names the code module exposes          *)
(***************************************************************************)
\* from ._concrete_material_properties import Ec
Exported == {"Ec"}

\* aci318_19.<name>(fc): an attribute the module does not have raises
\* AttributeError before any call is made.
CodeModuleCall(name, fc) ==
    IF name \notin Exported THEN Raise("AttributeError")
    ELSE Ec(fc, EcDefaultWc)

(***************************************************************************)
(* State                                                                   *)
(***************************************************************************)
VARIABLES
    shearArgs,  \* the arguments of a calc_shear_strength call
    shearRes,   \* what the call returned or raised
    primCall,   \* a call of Ec, fyd or fud: [fn, x, y]
    primRes,    \* what it returned or raised
    _fc,        \* ConcreteACI318_19._fc
    _Ec,        \* ConcreteACI318_19._Ec
    _fct,       \* ConcreteACI318_19._fct
    _eps_cu,    \* ConcreteACI318_19._eps_cu
    calls,      \* per property, how often its code-module primitive ran
    written,    \* per property, the value last passed to its setter
    last,       \* the last property access of the single caller
    pc,         \* per thread, its position in a property getter
    local       \* per thread, the value on its stack

vars == <<shearArgs, shearRes, primCall, primRes, _fc, _Ec, _fct, _eps_cu,
          calls, written, last, pc, local>>

Props == {"Ec", "fct", "eps_cu"}

Pending == Raise("pending")

(***************************************************************************)
(* Bounds of the enumerated inputs                                         *)
(***************************************************************************)
MaxRootFc == 1      \* shear: f_c = (50*s)^2 for s in 0..MaxRootFc
MaxDepthRoot == 4   \* shear: d = 5*k^2 - 10 for k in 2..MaxDepthRoot
MaxFcStep == 5      \* Ec: f_c = 1000*k for k in 1..MaxFcStep
MaxWcOffset == 1    \* Ec: w_c within MaxWcOffset of either range bound
MaxGammaStep == 3   \* fyd, fud: gamma_s = k/20 for k in 18..20+MaxGammaStep
MaxStrengthStep == 3 \* fyd, fud: strength = 20000*k for k in 1..MaxStrengthStep
MaxOverride == 2    \* facade: overrides in -MaxOverride..MaxOverride
NThreads == 2       \* threads sharing one facade

(***************************************************************************)
(* calc_shear_strength on enumerated inputs                                *)
(***************************************************************************)
ShearFc == {I(-1)} \cup {I((50 * s) * (50 * s)) : s \in 0..MaxRootFc}
ShearBw == {I(-12), Zero, I(12)}

\* d = 5*k^2 - 10 makes 2 / (1 + d / 10) the rational square (2/k)^2.
ShearD ==
    {I(-30), I(-10), Zero} \cup {I(5 * k * k - 10) : k \in 2..MaxDepthRoot}
ShearNu == {I(-8640), Zero, I(8640), I(8640000)}
ShearAg == {None, Some(Zero), Some(I(144))}
ShearLambda == {I(-1), Zero, Rat(3, 4), One}
ShearPhi == {None, Some(Rat(9, 10))}

\* Cube roots of the reinforcement ratios Av_min / (bw * d) that are tried.
ShearRhoRoot == {Zero, Rat(1, 8), Rat(1, 2), One}

\* Av_min: omitted, or q^3 * bw * d for a ratio root q (negative when bw * d
\* is), or -|bw * d|, or -1 where that makes the ratio negative or undefined.
ShearAvMin(bw, d) ==
    {None, Some(Neg(Abs(Mul(bw, d))))}
      \cup {Some(Mul(Mul(Mul(q, q), q), Mul(bw, d))) : q \in ShearRhoRoot}
      \cup (IF IsNeg(Mul(bw, d)) THEN {} ELSE {Some(I(-1))})

ShearIdleArgs ==
    [f_c |-> Zero, bw |-> Zero, d |-> Zero, Nu |-> Zero, Ag |-> None,
     Av_min |-> None, lambda_concrete |-> Zero, phi |-> None]

ShearPending == ShearRaise("pending")

PrimIdleCall == [fn |-> "none", x |-> Zero, y |-> Zero]

\* The facade and the threads before any facade exists.
FacadeIdle ==
    /\ _fc = 0
    /\ _Ec = None
    /\ _fct = None
    /\ _eps_cu = None
    /\ calls = [p \in Props |-> 0]
    /\ written = [p \in Props |-> None]
    /\ last = [op |-> "none", prop |-> "none", res |-> Pending]
    /\ pc = [t \in 1..NThreads |-> "idle"]
    /\ local = [t \in 1..NThreads |-> None]

facadeVars == <<_fc, _Ec, _fct, _eps_cu, calls, written, last, pc, local>>

ShearInit ==
    /\ \E f \in ShearFc, b \in ShearBw, dd \in ShearD, nu \in ShearNu,
          ag \in ShearAg, lam \in ShearLambda, ph \in ShearPhi :
          \E av \in ShearAvMin(b, dd) :
              shearArgs = [f_c |-> f, bw |-> b, d |-> dd, Nu |-> nu, Ag |-> ag,
                           Av_min |-> av, lambda_concrete |-> lam, phi |-> ph]
    /\ shearRes = ShearPending
    /\ primCall = PrimIdleCall
    /\ primRes = Pending
    /\ FacadeIdle

\* One call of calc_shear_strength on the chosen arguments.
CalcShearStrength ==
    /\ shearRes = ShearPending
    /\ shearRes' = calc_shear_strength(shearArgs)
    /\ UNCHANGED <<shearArgs, primCall, primRes, facadeVars>>

ShearNext == CalcShearStrength

ShearSpec == ShearInit /\ [][ShearNext]_vars

(***************************************************************************)
(* Properties of calc_shear_strength (checked under ShearSpec)             *)
(***************************************************************************)
ShearReturned == shearRes.kind = "ok"

\* The section area bw * d of the call.
ArgArea == Mul(shearArgs.bw, shearArgs.d)

\* The code-mandated ceiling 5 * lambda * sqrt(f'c) * bw * d of the call.
ArgCeiling ==
    Mul(Mul(I(5), shearArgs.lambda_concrete), Mul(Sqrt(shearArgs.f_c), ArgArea))

\* The axial-load term of the call times bw * d, as the specification words it:
\* min(Nu / (6 Ag), 0.05 f'c) when Nu and Ag are both given and nonzero, else 0.
ArgAxial ==
    IF IsZero(shearArgs.Nu) \/ ~shearArgs.Ag.some \/ IsZero(shearArgs.Ag.v)
    THEN Zero
    ELSE LET stress == Div(shearArgs.Nu, Mul(I(6), shearArgs.Ag.v))
             cap == Div(shearArgs.f_c, I(20))
         IN  Mul(IF Lt(cap, stress) THEN cap ELSE stress, ArgArea)

\* C1: every returned Vc is at most 5 * lambda_concrete * sqrt(f_c) * bw * d,
\* whichever branch computed it and whatever the axial adjustment added.
C1_VcNeverExceedsCeiling ==
    ShearReturned => Le(shearRes.Vc, ArgCeiling)

\* C1 witness: a returned result of the minimum-reinforcement branch with an
\* axial load, whose candidate 8 * lambda * sqrt(f_c) * bw * d lies above the
\* ceiling, so that the clamp decided the result.
C1_Witness ==
    /\ ShearReturned
    /\ shearArgs.Av_min.some
    /\ Lt(Zero, ArgArea)
    /\ shearArgs.Av_min.v = ArgArea
    /\ Lt(Zero, shearArgs.lambda_concrete)
    /\ Lt(Zero, shearArgs.f_c)
    /\ Lt(Zero, ArgAxial)
    /\ shearRes.Vc = ArgCeiling

\* C2: a call with Nu # 0 and no Ag ends in the validation error and in nothing
\* else: no result, and no error of a later step of the computation.
C2_MissingAgFails ==
    (shearRes # ShearPending /\ ~IsZero(shearArgs.Nu) /\ ~shearArgs.Ag.some)
        => shearRes = ShearRaise(AgRequired)

\* C2 witness: the validation error on arguments whose size-effect factor
\* would divide by zero (d = -10) had the computation started.
C2_Witness ==
    /\ shearRes = ShearRaise(AgRequired)
    /\ IsNeg(shearArgs.Nu)
    /\ ~shearArgs.Ag.some
    /\ shearArgs.d = I(-10)

\* The candidate Vc_a = 2 * lambda * sqrt(f'c) * bw * d of the call.
ArgVcA ==
    Mul(Mul(I(2), shearArgs.lambda_concrete), Mul(Sqrt(shearArgs.f_c), ArgArea))

\* C9: with Av_min >= 0 supplied, the returned Vc is
\* min(max(Vc_a, Vc_b) + Nu_term * bw * d, 5 * lambda * sqrt(f_c) * bw * d);
\* the size-effect factor lambda_s does not enter it.
C9_MinReinfTakesLarger ==
    (ShearReturned /\ shearArgs.Av_min.some /\ Le(Zero, shearArgs.Av_min.v)) =>
        \E q \in ShearRhoRoot :
            /\ Mul(Mul(Mul(q, q), q), ArgArea) = shearArgs.Av_min.v
            /\ LET vb == Mul(Mul(Mul(I(8), shearArgs.lambda_concrete), q),
                             Mul(Sqrt(shearArgs.f_c), ArgArea))
                   larger == IF Lt(ArgVcA, vb) THEN vb ELSE ArgVcA
                   sum == Add(larger, ArgAxial)
               IN  shearRes.Vc = IF Lt(ArgCeiling, sum) THEN ArgCeiling ELSE sum

\* C9 witness: Av_min / (bw * d) = 1/8, so Vc_b = 2 * Vc_a is the larger
\* candidate, with an axial load and a result below the ceiling.
C9_Witness ==
    /\ ShearReturned
    /\ shearArgs.Av_min.some
    /\ Lt(Zero, ArgArea)
    /\ shearArgs.Av_min.v = Mul(Rat(1, 8), ArgArea)
    /\ Lt(Zero, shearArgs.lambda_concrete)
    /\ Lt(Zero, shearArgs.f_c)
    /\ ~IsZero(ArgAxial)
    /\ Lt(shearRes.Vc, ArgCeiling)
    /\ Lt(Add(ArgVcA, ArgAxial), shearRes.Vc)

\* C10: with Av_min omitted the capacity before the axial adjustment is 0:
\* the returned Vc is min(Nu_term * bw * d, ceiling), and with Nu = 0,
\* lambda_concrete >= 0, f_c > 0, bw > 0 and d > 0 both Vc and Vn are 0 while
\* lambda_s = min(sqrt(2 / (1 + d / 10)), 1) is still reported.
C10_OmittedAvMinGivesZero ==
    (ShearReturned /\ ~shearArgs.Av_min.some) =>
        /\ shearRes.Vc = (IF Lt(ArgCeiling, ArgAxial) THEN ArgCeiling ELSE ArgAxial)
        /\ (/\ IsZero(shearArgs.Nu)
            /\ Le(Zero, shearArgs.lambda_concrete)
            /\ Lt(Zero, shearArgs.f_c)
            /\ Lt(Zero, shearArgs.bw)
            /\ Lt(Zero, shearArgs.d))
           => /\ shearRes.Vc = Zero
              /\ shearRes.Vn = Zero
              /\ Lt(Zero, shearRes.lambda_s)
              /\ Le(shearRes.lambda_s, One)
              /\ \/ /\ shearRes.lambda_s = One
                    /\ Le(shearArgs.d, I(10))
                 \/ Mul(Mul(shearRes.lambda_s, shearRes.lambda_s),
                        Add(One, Div(shearArgs.d, I(10)))) = I(2)

\* C10 witness: a returned result without Av_min and without axial load on a
\* deep section of normal-weight concrete: Vc = Vn = 0 below a positive
\* ceiling, with lambda_s < 1 reported.
C10_Witness ==
    /\ ShearReturned
    /\ ~shearArgs.Av_min.some
    /\ IsZero(shearArgs.Nu)
    /\ shearArgs.lambda_concrete = One
    /\ Lt(Zero, shearArgs.f_c)
    /\ Lt(Zero, shearArgs.bw)
    /\ Lt(I(10), shearArgs.d)
    /\ Lt(Zero, ArgCeiling)
    /\ shearRes.Vc = Zero
    /\ shearRes.Vn = Zero
    /\ Lt(shearRes.lambda_s, One)

(***************************************************************************)
(* The formula primitives Ec, fyd and fud on enumerated inputs             *)
(***************************************************************************)
\* Ec: f_c (an integer number of psi), negative and zero included.
EcFc == {-1, 0} \cup {1000 * k : k \in 1..MaxFcStep}

\* Ec: w_c around the two bounds of the unit-weight range, and far outside.
EcWc ==
    {0, 120, EcDefaultWc, 2 * EcWcHigh}
      \cup {EcWcLow + k : k \in -MaxWcOffset..MaxWcOffset}
      \cup {EcWcHigh + k : k \in -MaxWcOffset..MaxWcOffset}

\* fyd, fud: the strength, in psi.
SteelStrength == {I(-1), Zero} \cup {I(20000 * k) : k \in 1..MaxStrengthStep}

\* fyd, fud: gamma_s = 0, and 0.90, 0.95, 1.00, 1.05, ...
SteelGamma == {Zero} \cup {Rat(k, 20) : k \in 18..(20 + MaxGammaStep)}

PrimInit ==
    /\ \/ \E f \in EcFc, w \in EcWc :
            primCall = [fn |-> "Ec", x |-> I(f), y |-> I(w)]
       \/ \E fn \in {"fyd", "fud"}, st \in SteelStrength, g \in SteelGamma :
            primCall = [fn |-> fn, x |-> st, y |-> g]
    /\ primRes = Pending
    /\ shearArgs = ShearIdleArgs
    /\ shearRes = ShearPending
    /\ FacadeIdle

\* One call of Ec(f_c, w_c).
CallEc ==
    /\ primCall.fn = "Ec"
    /\ primRes = Pending
    /\ primRes' = Ec(primCall.x.n, primCall.y.n)
    /\ UNCHANGED <<primCall, shearArgs, shearRes, facadeVars>>

\* One call of fyd(fy, gamma_s).
CallFyd ==
    /\ primCall.fn = "fyd"
    /\ primRes = Pending
    /\ primRes' = fyd(primCall.x, primCall.y)
    /\ UNCHANGED <<primCall, shearArgs, shearRes, facadeVars>>

\* One call of fud(fu, gamma_s).
CallFud ==
    /\ primCall.fn = "fud"
    /\ primRes = Pending
    /\ primRes' = fud(primCall.x, primCall.y)
    /\ UNCHANGED <<primCall, shearArgs, shearRes, facadeVars>>

PrimNext == CallEc \/ CallFyd \/ CallFud

PrimSpec == PrimInit /\ [][PrimNext]_vars

\* C7: fyd and fud raise ValueError, returning nothing, exactly when the
\* strength is <= 0 or gamma_s < 1 (both included); on every other input
\* they return the value that times gamma_s gives the strength.
C7_DesignStrength ==
    (primCall.fn \in {"fyd", "fud"} /\ primRes # Pending) =>
        IF primCall.x.n <= 0 \/ primCall.y.n < primCall.y.d
        THEN primRes = Raise("ValueError")
        ELSE /\ primRes.kind = "ok"
             /\ Mul(primRes.v, primCall.y) = primCall.x

\* C7 witness: fud called with a positive strength and the smallest valid
\* gamma_s = 1 returned the strength itself.
C7_Witness ==
    /\ primCall.fn = "fud"
    /\ primCall.y = One
    /\ Lt(Zero, primCall.x)
    /\ primRes = Ok(primCall.x)

\* C8: Ec(f_c, w_c) for f_c > 0 is 33 * w_c^1.5 * sqrt(f_c) when
\* 90 <= w_c <= 160, both bounds included, and 57000 * sqrt(f_c) otherwise.
\* With v > 0 the returned value and k * sqrt(m) the number v / (33 * w_c) in
\* the first case, v / 57000 in the second: k * k * m is w_c * f_c in the
\* first case and f_c in the second.
C8_EcFormula ==
    (primCall.fn = "Ec" /\ primRes # Pending /\ primCall.x.n > 0) =>
        /\ primRes.kind = "ok"
        /\ Lt(Zero, primRes.v)
        /\ LET w == primCall.y.n
               f == primCall.x.n
               light == Div(primRes.v, I(33 * w))
               normal == Div(primRes.v, I(57000))
           IN  IF 90 <= w /\ w <= 160
               THEN /\ light.d = 1
                    /\ light.n <= w * f
                    /\ light.n * light.n * light.r = w * f
               ELSE /\ normal.d = 1
                    /\ normal.n <= f
                    /\ normal.n * normal.n * normal.r = f

\* C8 witness: a call at the upper bound w_c = 160 that returned the
\* unit-weight formula's value, which differs from 57000 * sqrt(f_c).
C8_Witness ==
    /\ primCall.fn = "Ec"
    /\ primCall.y = I(160)
    /\ primCall.x.n > 0
    /\ primRes.kind = "ok"
    /\ primRes.v # Mul(I(57000), Sqrt(primCall.x))
    /\ primRes.v = Mul(Mul(I(33 * 160), Sqrt(I(160))), Sqrt(primCall.x))

(***************************************************************************)
(* materials/concrete/_concreteACI318_19.py: one caller                    *)
(***************************************************************************)
\* The compressive strengths a facade is constructed with, in psi.
FacadeFc == {1000 * k : k \in 1..MaxFcStep}

\* The values a caller passes to a setter.
Overrides == {I(v) : v \in -MaxOverride..MaxOverride}

NoResult == Raise("none")

\* The backing field of a property.
Cache(p) == CASE p = "Ec" -> _Ec [] p = "fct" -> _fct [] p = "eps_cu" -> _eps_cu

\* ConcreteACI318_19(fc): the base class keeps the raw input, the derived
\* fields start as None.
Construct(fc) ==
    /\ _fc = fc
    /\ _Ec = None
    /\ _fct = None
    /\ _eps_cu = None

Init ==
    /\ \E fc \in FacadeFc : Construct(fc)
    /\ calls = [p \in Props |-> 0]
    /\ written = [p \in Props |-> None]
    /\ last = [op |-> "none", prop |-> "none", res |-> NoResult]
    /\ pc = [t \in 1..NThreads |-> "idle"]
    /\ local = [t \in 1..NThreads |-> None]
    /\ shearArgs = ShearIdleArgs
    /\ shearRes = ShearPending
    /\ primCall = PrimIdleCall
    /\ primRes = Pending

\* The primitive ran iff the module has it.
CallsAfter(name) ==
    IF name \in Exported THEN [calls EXCEPT ![name] = @ + 1] ELSE calls

\* Ec getter: if self._Ec is None: self._Ec = aci318_19.Ec(self._fc);
\* return self._Ec
GetEc ==
    /\ IF _Ec.some
       THEN /\ last' = [op |-> "get", prop |-> "Ec", res |-> Ok(_Ec.v)]
            /\ UNCHANGED <<_Ec, calls>>
       ELSE LET r == CodeModuleCall("Ec", _fc)
            IN  /\ calls' = CallsAfter("Ec")
                /\ _Ec' = IF r.kind = "ok" THEN Some(r.v) ELSE _Ec
                /\ last' = [op |-> "get", prop |-> "Ec", res |-> r]
    /\ UNCHANGED <<_fc, _fct, _eps_cu, written, pc, local>>
    /\ UNCHANGED <<shearArgs, shearRes, primCall, primRes>>

\* Ec setter: self._Ec = abs(value)
SetEc(value) ==
    /\ _Ec' = Some(Abs(value))
    /\ written' = [written EXCEPT !["Ec"] = Some(value)]
    /\ last' = [op |-> "set", prop |-> "Ec", res |-> NoResult]
    /\ UNCHANGED <<_fc, _fct, _eps_cu, calls, pc, local>>
    /\ UNCHANGED <<shearArgs, shearRes, primCall, primRes>>

\* fct getter: if self._fct is None: self._fct = aci318_19.fct(self._fc);
\* return self._fct
GetFct ==
    /\ IF _fct.some
       THEN /\ last' = [op |-> "get", prop |-> "fct", res |-> Ok(_fct.v)]
            /\ UNCHANGED <<_fct, calls>>
       ELSE LET r == CodeModuleCall("fct", _fc)
            IN  /\ calls' = CallsAfter("fct")
                /\ _fct' = IF r.kind = "ok" THEN Some(r.v) ELSE _fct
                /\ last' = [op |-> "get", prop |-> "fct", res |-> r]
    /\ UNCHANGED <<_fc, _Ec, _eps_cu, written, pc, local>>
    /\ UNCHANGED <<shearArgs, shearRes, primCall, primRes>>

\* fct setter: self._fct = abs(value)
SetFct(value) ==
    /\ _fct' = Some(Abs(value))
    /\ written' = [written EXCEPT !["fct"] = Some(value)]
    /\ last' = [op |-> "set", prop |-> "fct", res |-> NoResult]
    /\ UNCHANGED <<_fc, _Ec, _eps_cu, calls, pc, local>>
    /\ UNCHANGED <<shearArgs, shearRes, primCall, primRes>>

\* eps_cu getter:
\* self._eps_cu = self._eps_cu or aci318_19.eps_cu(self._fc);
\* return self._eps_cu.  A stored value that is falsy (None or 0) is computed
\* again.
GetEpsCu ==
    /\ IF _eps_cu.some /\ Truthy(_eps_cu.v)
       THEN /\ last' = [op |-> "get", prop |-> "eps_cu", res |-> Ok(_eps_cu.v)]
            /\ UNCHANGED <<_eps_cu, calls>>
       ELSE LET r == CodeModuleCall("eps_cu", _fc)
            IN  /\ calls' = CallsAfter("eps_cu")
                /\ _eps_cu' = IF r.kind = "ok" THEN Some(r.v) ELSE _eps_cu
                /\ last' = [op |-> "get", prop |-> "eps_cu", res |-> r]
    /\ UNCHANGED <<_fc, _Ec, _fct, written, pc, local>>
    /\ UNCHANGED <<shearArgs, shearRes, primCall, primRes>>

\* eps_cu setter: self._eps_cu = value
SetEpsCu(value) ==
    /\ _eps_cu' = Some(value)
    /\ written' = [written EXCEPT !["eps_cu"] = Some(value)]
    /\ last' = [op |-> "set", prop |-> "eps_cu", res |-> NoResult]
    /\ UNCHANGED <<_fc, _Ec, _fct, calls, pc, local>>
    /\ UNCHANGED <<shearArgs, shearRes, primCall, primRes>>

Next ==
    \/ GetEc
    \/ GetFct
    \/ GetEpsCu
    \/ \E value \in Overrides : SetEc(value)
    \/ \E value \in Overrides : SetFct(value)
    \/ \E value \in Overrides : SetEpsCu(value)

Spec == Init /\ [][Next]_vars

(***************************************************************************)
(* Properties of the facade with one caller (checked under Spec)           *)
(***************************************************************************)
\* The last access was a read of property p.
ReadOf(p) == last.op = "get" /\ last.prop = p

\* C3: a read of a derived property that was never overridden returns a
\* value, that value is the one stored in the backing field, and the
\* code-module primitive of the property has run exactly once in total.
C3_FirstReadComputesOnce ==
    \A p \in Props :
        (ReadOf(p) /\ ~written[p].some) =>
            /\ last.res.kind = "ok"
            /\ Cache(p) = Some(last.res.v)
            /\ calls[p] = 1

\* The part of C3 about Ec alone.
EcReadCachedOnce ==
    (ReadOf("Ec") /\ ~written["Ec"].some) =>
        /\ last.res.kind = "ok"
        /\ _Ec = Some(last.res.v)
        /\ calls["Ec"] = 1

\* C4: once a derived property has been overridden, every read of it returns
\* the overridden value (as written, or its absolute value) out of the
\* backing field, whatever was written and whether or not the property had
\* been read before.
C4_OverrideIsKept ==
    \A p \in Props :
        (ReadOf(p) /\ written[p].some) =>
            /\ last.res.kind = "ok"
            /\ last.res.v \in {written[p].v, Abs(written[p].v)}
            /\ Cache(p) = Some(last.res.v)

\* C5: an override stores the absolute value of what was written: after
\* writing v the backing field holds abs(v), and a read that returns a value
\* returns abs(v).
C5_OverrideStoresAbs ==
    \A p \in Props :
        /\ (last.op = "set" /\ last.prop = p) =>
               Cache(p) = Some(Abs(written[p].v))
        /\ (ReadOf(p) /\ written[p].some /\ last.res.kind = "ok") =>
               last.res.v = Abs(written[p].v)

\* The part of C5 about Ec and fct.
EcFctOverrideStoresAbs ==
    \A p \in {"Ec", "fct"} :
        /\ (last.op = "set" /\ last.prop = p) =>
               Cache(p) = Some(Abs(written[p].v))
        /\ (ReadOf(p) /\ written[p].some) =>
               last.res = Ok(Abs(written[p].v))

(***************************************************************************)
(* materials/concrete/_concreteACI318_19.py: one facade, several threads   *)
(*                                                                         *)
(* The getters take no lock.  A getter is a sequence of bytecodes between  *)
(* which the interpreter may switch threads; each action below is one      *)
(* stretch of a getter that touches the shared backing field once.         *)
(***************************************************************************)
Threads == 1..NThreads

ThreadInit ==
    /\ \E fc \in FacadeFc : _fc = fc
    /\ _Ec = None
    /\ _fct = None
    /\ _eps_cu \in {None} \cup {Some(I(v)) : v \in 1..MaxOverride}
    /\ calls = [p \in Props |-> 0]
    /\ written = [p \in Props |-> None]
    /\ last = [op |-> "none", prop |-> "none", res |-> NoResult]
    /\ pc = [t \in Threads |-> "idle"]
    /\ local = [t \in Threads |-> None]
    /\ shearArgs = ShearIdleArgs
    /\ shearRes = ShearPending
    /\ primCall = PrimIdleCall
    /\ primRes = Pending

threadFixed ==
    <<_fc, _fct, written, last, shearArgs, shearRes, primCall, primRes>>

\* Ec getter, line 78: if self._Ec is None
EcCheck(t) ==
    /\ pc[t] = "idle"
    /\ pc' = [pc EXCEPT ![t] = IF _Ec.some THEN "Ec_return" ELSE "Ec_call"]
    /\ UNCHANGED <<_Ec, _eps_cu, calls, local, threadFixed>>

\* Ec getter, line 79, right-hand side: aci318_19.Ec(self._fc)
EcCall(t) ==
    /\ pc[t] = "Ec_call"
    /\ LET r == CodeModuleCall("Ec", _fc)
       IN  /\ calls' = CallsAfter("Ec")
           /\ local' = [local EXCEPT ![t] = IF r.kind = "ok" THEN Some(r.v) ELSE None]
           /\ pc' = [pc EXCEPT ![t] = IF r.kind = "ok" THEN "Ec_store" ELSE "raised"]
    /\ UNCHANGED <<_Ec, _eps_cu, threadFixed>>

\* Ec getter, line 79, assignment: self._Ec = <the computed value>
EcStore(t) ==
    /\ pc[t] = "Ec_store"
    /\ _Ec' = local[t]
    /\ pc' = [pc EXCEPT ![t] = "Ec_return"]
    /\ UNCHANGED <<_eps_cu, calls, local, threadFixed>>

\* Ec getter, line 80: return self._Ec
EcReturn(t) ==
    /\ pc[t] = "Ec_return"
    /\ local' = [local EXCEPT ![t] = _Ec]
    /\ pc' = [pc EXCEPT ![t] = "done"]
    /\ UNCHANGED <<_Ec, _eps_cu, calls, threadFixed>>

\* eps_cu getter, line 102, right-hand side:
\* self._eps_cu or aci318_19.eps_cu(self._fc)
EpsCuCheck(t) ==
    /\ pc[t] = "idle"
    /\ IF _eps_cu.some /\ Truthy(_eps_cu.v)
       THEN /\ local' = [local EXCEPT ![t] = _eps_cu]
            /\ pc' = [pc EXCEPT ![t] = "eps_cu_store"]
            /\ UNCHANGED calls
       ELSE LET r == CodeModuleCall("eps_cu", _fc)
            IN  /\ calls' = CallsAfter("eps_cu")
                /\ local' = [local EXCEPT ![t] =
                                IF r.kind = "ok" THEN Some(r.v) ELSE None]
                /\ pc' = [pc EXCEPT ![t] =
                             IF r.kind = "ok" THEN "eps_cu_store" ELSE "raised"]
    /\ UNCHANGED <<_Ec, _eps_cu, threadFixed>>

\* eps_cu getter, line 102, assignment: self._eps_cu = <that value>
EpsCuStore(t) ==
    /\ pc[t] = "eps_cu_store"
    /\ _eps_cu' = local[t]
    /\ pc' = [pc EXCEPT ![t] = "eps_cu_return"]
    /\ UNCHANGED <<_Ec, calls, local, threadFixed>>

\* eps_cu getter, line 103: return self._eps_cu
EpsCuReturn(t) ==
    /\ pc[t] = "eps_cu_return"
    /\ local' = [local EXCEPT ![t] = _eps_cu]
    /\ pc' = [pc EXCEPT ![t] = "done"]
    /\ UNCHANGED <<_Ec, _eps_cu, calls, threadFixed>>

\* The thread goes on to its next property access.
Again(t) ==
    /\ pc[t] \in {"done", "raised"}
    /\ pc' = [pc EXCEPT ![t] = "idle"]
    /\ local' = [local EXCEPT ![t] = None]
    /\ UNCHANGED <<_Ec, _eps_cu, calls, threadFixed>>

ThreadNext ==
    \E t \in Threads :
        \/ EcCheck(t)
        \/ EcCall(t)
        \/ EcStore(t)
        \/ EcReturn(t)
        \/ EpsCuCheck(t)
        \/ EpsCuStore(t)
        \/ EpsCuReturn(t)
        \/ Again(t)

ThreadSpec == ThreadInit /\ [][ThreadNext]_vars

\* C6: with one facade shared by concurrent callers the first access of a
\* derived property is serialized, so that its primitive is computed at most
\* once.
C6_FirstAccessSerialized == \A p \in Props : calls[p] <= 1

=============================================================================
